---- MODULE Spec2Model ----
(***************************************************************************)
(* Model of the Result type of types/result.ts: the two variant classes   *)
(* Ok and Err, their accessor and combinator methods, and the exception   *)
(* adapting constructors Result.wrap and Result.asyncWrap.                 *)
(*                                                                         *)
(* Result instances live in a heap of immutable objects; a reference is   *)
(* the index of the object.  Every method is an operator from the heap    *)
(* and its arguments to an effect: the completion (return or throw), the  *)
(* heap after the allocations it made and the callback invocations it     *)
(* performed, in order.  The state keeps the heap, the last call with its  *)
(* completion, the invocations (or the await) that call made, and the      *)
(* activations of asyncWrap that have not been awaited yet.                *)
(***************************************************************************)
EXTENDS Integers, Sequences, FiniteSets, TLC

\* ------------------------------------------------------------------ bounds
MaxHeap == 3      \* Result objects allocated in one run
MaxTasks == 2     \* asyncWrap calls made in one run
MaxChain == 2     \* chained calls in one expression
MaxSteps == 1     \* suspension steps of a wrapped asynchronous computation

\* --------------------------------------------------------------- JS values
Val(k, n) == [k |-> k, n |-> n]
Undefined == Val("undefined", 0)
Null == Val("null", 0)
False == Val("boolean", 0)
True == Val("boolean", 1)
Num(i) == Val("number", i)
Error(i) == Val("Error", i)
TypeError == Val("TypeError", 0)
Ref(i) == Val("Result", i)

\* payloads a caller constructs a Result with (T and E)
Payloads == {Undefined, Num(0)}
\* default values handed to unwrapOr / mapOr
Defaults == {Null}
\* values a wrapped function may throw or reject with
Thrown == {Undefined, Num(0)}
\* the optional second argument of wrap/asyncWrap; Undefined when omitted
Fallbacks == {Undefined, Null, Num(0)}

\* completion of a call
Return(v) == [kind |-> "return", val |-> v]
Throw(v) == [kind |-> "throw", val |-> v]

\* an effect: completion, heap after it, callback invocations made
Eff(out, h, cs) == [out |-> out, heap |-> h, calls |-> cs]

\* --------------------------------------------------------------- callbacks
\* caller-supplied functions, as data: what the body does with its argument
Fn(body, c) == [body |-> body, c |-> c]
ValueFns == {Fn("id", Undefined)}
              \cup {Fn("const", v) : v \in {Num(0)}}
              \cup {Fn("throw", v) : v \in {Error(0)}}
ResultFns(h) == {Fn("newOk", Undefined), Fn("newErr", Undefined)}
              \cup {Fn("captured", Ref(i)) : i \in 1..Len(h) \cap {1}}
              \cup {Fn("throw", v) : v \in {Error(0)}}
\* the (onOk, onErr) pairs handed to match: the two always differ
MatchFns == {<<Fn("id", Undefined), Fn("const", Num(0))>>,
             <<Fn("const", Num(0)), Fn("id", Undefined)>>,
             <<Fn("id", Undefined), Fn("throw", Error(0))>>,
             <<Fn("throw", Error(0)), Fn("id", Undefined)>>}
SyncFns == {Fn("const", v) : v \in {Undefined, Num(0)}}
              \cup {Fn("throw", v) : v \in Thrown}
\* functions handed to asyncWrap: throw before returning, or return a promise
AsyncFns == {Fn("promise", Undefined)} \cup {Fn("throw", v) : v \in Thrown}
\* values a wrapped asynchronous computation may complete with
Resolved == {Num(0)}

\* Option<T> = T | undefined: a value is present when it is not undefined
IsSome(v) == v # Undefined

Obj(cls, v) == [cls |-> cls, val |-> v]

Arg1(args) == IF Len(args) >= 1 THEN args[1] ELSE Undefined

\* x => g(f(x)), and x => fs[n](...fs[1](x)) for a sequence of one or more
Compose(f, g) == Fn("compose", <<f, g>>)

RECURSIVE ComposeAll(_)
ComposeAll(fs) ==
  IF Len(fs) = 1
    THEN fs[1]
    ELSE Compose(ComposeAll(SubSeq(fs, 1, Len(fs) - 1)), fs[Len(fs)])

\* f(...args): the completion of the body and the heap after it
RECURSIVE Apply(_, _, _)
Apply(h, f, args) ==
  CASE f.body = "id" -> [out |-> Return(Arg1(args)), heap |-> h]
    [] f.body = "const" -> [out |-> Return(f.c), heap |-> h]
    [] f.body = "throw" -> [out |-> Throw(f.c), heap |-> h]
    [] f.body = "captured" -> [out |-> Return(f.c), heap |-> h]
    [] f.body = "promise" -> [out |-> Return(Val("Promise", 0)), heap |-> h]
    [] f.body = "newOk" ->
         [out |-> Return(Ref(Len(h) + 1)), heap |-> Append(h, Obj("Ok", Arg1(args)))]
    [] f.body = "newErr" ->
         [out |-> Return(Ref(Len(h) + 1)), heap |-> Append(h, Obj("Err", Arg1(args)))]
    [] f.body = "compose" ->
         LET a == Apply(h, f.c[1], args)
         IN IF a.out.kind = "throw" THEN a ELSE Apply(a.heap, f.c[2], <<a.out.val>>)

\* one invocation of the callback bound to parameter `param`
Invoke(h, param, f, args) ==
  LET a == Apply(h, f, args)
  IN Eff(a.out, a.heap, <<[param |-> param, args |-> args, out |-> a.out]>>)

\* `new Ok(v)` / `new Err(v)`
New(h, cls, v) == Eff(Return(Ref(Len(h) + 1)), Append(h, Obj(cls, v)), <<>>)

\* `new C(f(x))`: the constructor runs only when the call returned
NewOf(cls, e) ==
  IF e.out.kind = "throw" THEN e
  ELSE Eff(Return(Ref(Len(e.heap) + 1)), Append(e.heap, Obj(cls, e.out.val)), e.calls)

\* calling a member the class does not define
NotAFunction(h) == Eff(Throw(TypeError), h, <<>>)

\* ------------------------------------------------------------------ class Ok
\* slip: unwrap written like the err() accessor of Ok
Ok_unwrap_undefined(h, self) == Eff(Return(Undefined), h, <<>>)
Ok_unwrap(h, self) == Eff(Return(h[self].val), h, <<>>)
Ok_unwrapErr(h, self) == NotAFunction(h)
Ok_unwrapOr(h, self, d) == Eff(Return(h[self].val), h, <<>>)
Ok_isOk(h, self) == Eff(Return(True), h, <<>>)
Ok_ok(h, self) == Eff(Return(h[self].val), h, <<>>)
Ok_isErr(h, self) == Eff(Return(False), h, <<>>)
Ok_err(h, self) == Eff(Return(Undefined), h, <<>>)
\* slip: map overwrites the payload of its receiver and returns the receiver
Ok_map_inplace(h, self, f) ==
  LET e == Invoke(h, "f", f, <<h[self].val>>)
  IN IF e.out.kind = "throw" THEN e
     ELSE Eff(Return(Ref(self)), [e.heap EXCEPT ![self].val = e.out.val], e.calls)
Ok_map(h, self, f) == NewOf("Ok", Invoke(h, "f", f, <<h[self].val>>))
\* slip: Ok.mapErr written like Err.mapErr
Ok_mapErr_invokes(h, self, f) == NewOf("Ok", Invoke(h, "f", f, <<h[self].val>>))
Ok_mapErr(h, self, f) == New(h, "Ok", h[self].val)
Ok_mapOr(h, self, d, f) == Invoke(h, "f", f, <<h[self].val>>)
Ok_match(h, self, ok, err) == Invoke(h, "ok", ok, <<h[self].val>>)
\* slip: Ok.and written like Ok.or
Ok_and_self(h, self, res) == New(h, "Ok", h[self].val)
Ok_and(h, self, res) == Eff(Return(Ref(res)), h, <<>>)
\* slip: Ok.andThen written like Ok.map
Ok_andThen_wraps(h, self, op) == NewOf("Ok", Invoke(h, "op", op, <<h[self].val>>))
Ok_andThen(h, self, op) == Invoke(h, "op", op, <<h[self].val>>)
\* slip: Ok.or written like Err.or
Ok_or_other(h, self, res) == Eff(Return(Ref(res)), h, <<>>)
Ok_or(h, self, res) == New(h, "Ok", h[self].val)
\* slip: Ok.orElse written like Err.orElse
Ok_orElse_invokes(h, self, op) == Invoke(h, "op", op, <<h[self].val>>)
Ok_orElse(h, self, op) == New(h, "Ok", h[self].val)

\* ----------------------------------------------------------------- class Err
\* slip: Err given an unwrap that hands back its own payload
Err_unwrap_payload(h, self) == Eff(Return(h[self].val), h, <<>>)
Err_unwrap(h, self) == NotAFunction(h)
Err_unwrapErr(h, self) == Eff(Return(h[self].val), h, <<>>)
\* slip: Err.unwrapOr written like Ok.unwrapOr
Err_unwrapOr_payload(h, self, d) == Eff(Return(h[self].val), h, <<>>)
Err_unwrapOr(h, self, d) == Eff(Return(d), h, <<>>)
\* slip: Err answers isOk like Ok
Err_isOk_true(h, self) == Eff(Return(True), h, <<>>)
Err_isOk(h, self) == Eff(Return(False), h, <<>>)
\* slip: Err.ok written like Err.err
Err_ok_payload(h, self) == Eff(Return(h[self].val), h, <<>>)
Err_ok(h, self) == Eff(Return(Undefined), h, <<>>)
Err_isErr(h, self) == Eff(Return(True), h, <<>>)
Err_err(h, self) == Eff(Return(h[self].val), h, <<>>)
\* slip: Err.map written like Ok.map
Err_map_invokes(h, self, f) == NewOf("Err", Invoke(h, "f", f, <<h[self].val>>))
Err_map(h, self, f) == New(h, "Err", h[self].val)
\* slip: mapErr guards f the way wrap does
Err_mapErr_adapts(h, self, f) ==
  LET e == Invoke(h, "f", f, <<h[self].val>>)
  IN IF e.out.kind = "return" THEN NewOf("Err", e)
     ELSE LET n == New(e.heap, "Err", e.out.val) IN Eff(n.out, n.heap, e.calls)
Err_mapErr(h, self, f) == NewOf("Err", Invoke(h, "f", f, <<h[self].val>>))
\* slip: Err.mapOr applies f to the default
Err_mapOr_applies(h, self, d, f) == Invoke(h, "f", f, <<d>>)
Err_mapOr(h, self, d, f) == Eff(Return(d), h, <<>>)
\* slip: Err.match applies the first callback
Err_match_first(h, self, ok, err) == Invoke(h, "ok", ok, <<h[self].val>>)
Err_match(h, self, ok, err) == Invoke(h, "err", err, <<h[self].val>>)
\* slip: Err.and written like Ok.and
Err_and_other(h, self, res) == Eff(Return(Ref(res)), h, <<>>)
Err_and(h, self, res) == New(h, "Err", h[self].val)
\* slip: Err.andThen written like Ok.andThen
Err_andThen_invokes(h, self, op) == Invoke(h, "op", op, <<h[self].val>>)
Err_andThen(h, self, op) == New(h, "Err", h[self].val)
Err_or(h, self, res) == Eff(Return(Ref(res)), h, <<>>)
\* slip: Err.orElse written like Ok.orElse
Err_orElse_skips(h, self, op) == New(h, "Err", h[self].val)
Err_orElse(h, self, op) == Invoke(h, "op", op, <<h[self].val>>)

\* ------------------------------------------------- Result<T, E> = Ok | Err
\* a method call on a Result runs the body of the receiver's class
IsOkObj(h, r) == h[r].cls = "Ok"

Result_unwrap(h, self) ==
  IF IsOkObj(h, self) THEN Ok_unwrap(h, self) ELSE Err_unwrap(h, self)
Result_unwrapErr(h, self) ==
  IF IsOkObj(h, self) THEN Ok_unwrapErr(h, self) ELSE Err_unwrapErr(h, self)
Result_unwrapOr(h, self, d) ==
  IF IsOkObj(h, self) THEN Ok_unwrapOr(h, self, d) ELSE Err_unwrapOr(h, self, d)
Result_isOk(h, self) ==
  IF IsOkObj(h, self) THEN Ok_isOk(h, self) ELSE Err_isOk(h, self)
Result_ok(h, self) ==
  IF IsOkObj(h, self) THEN Ok_ok(h, self) ELSE Err_ok(h, self)
Result_isErr(h, self) ==
  IF IsOkObj(h, self) THEN Ok_isErr(h, self) ELSE Err_isErr(h, self)
Result_err(h, self) ==
  IF IsOkObj(h, self) THEN Ok_err(h, self) ELSE Err_err(h, self)
Result_map(h, self, f) ==
  IF IsOkObj(h, self) THEN Ok_map(h, self, f) ELSE Err_map(h, self, f)
Result_mapErr(h, self, f) ==
  IF IsOkObj(h, self) THEN Ok_mapErr(h, self, f) ELSE Err_mapErr(h, self, f)
Result_mapOr(h, self, d, f) ==
  IF IsOkObj(h, self) THEN Ok_mapOr(h, self, d, f) ELSE Err_mapOr(h, self, d, f)
Result_match(h, self, ok, err) ==
  IF IsOkObj(h, self) THEN Ok_match(h, self, ok, err) ELSE Err_match(h, self, ok, err)
Result_and(h, self, res) ==
  IF IsOkObj(h, self) THEN Ok_and(h, self, res) ELSE Err_and(h, self, res)
Result_andThen(h, self, op) ==
  IF IsOkObj(h, self) THEN Ok_andThen(h, self, op) ELSE Err_andThen(h, self, op)
Result_or(h, self, res) ==
  IF IsOkObj(h, self) THEN Ok_or(h, self, res) ELSE Err_or(h, self, res)
Result_orElse(h, self, op) ==
  IF IsOkObj(h, self) THEN Ok_orElse(h, self, op) ELSE Err_orElse(h, self, op)

\* ------------------------------------------------------------ namespace Result
\* `e ?? err`
Nullish(e, err) == IF e = Undefined \/ e = Null THEN err ELSE e

\* slip: wrap without its try/catch
wrap_unguarded(h, f, e) == NewOf("Ok", Invoke(h, "f", f, <<>>))
wrap(h, f, e) ==
  LET c == Invoke(h, "f", f, <<>>)
  IN IF c.out.kind = "return"
       THEN NewOf("Ok", c)
       ELSE LET n == New(c.heap, "Err", Nullish(e, c.out.val))
            IN Eff(n.out, n.heap, c.calls)

\* slip: the catch clause rethrows
asyncWrap_catch_rethrow(h, e, err) == Eff(Throw(err), h, <<>>)
\* the catch clause of asyncWrap: `return new Err(e ?? err)`
asyncWrap_catch(h, e, err) == New(h, "Err", Nullish(e, err))

\* slip: a failed call of f is retried once before the catch clause gives up
asyncWrap_call_retry(h, f, e) ==
  LET c == Invoke(h, "f", f, <<>>)
      c2 == Invoke(c.heap, "f", f, <<>>)
  IN IF c.out.kind = "return"
       THEN c
       ELSE IF c2.out.kind = "return"
              THEN Eff(c2.out, c2.heap, c.calls \o c2.calls)
              ELSE LET n == asyncWrap_catch(c2.heap, e, c2.out.val)
                   IN Eff(n.out, n.heap, c.calls \o c2.calls)
\* asyncWrap up to its await: f() is called inside the try block
asyncWrap_call(h, f, e) ==
  LET c == Invoke(h, "f", f, <<>>)
  IN IF c.out.kind = "return"
       THEN c
       ELSE LET n == asyncWrap_catch(c.heap, e, c.out.val)
            IN Eff(n.out, n.heap, c.calls)

\* slip: the await is missing, Ok wraps the promise itself
asyncWrap_resume_noawait(h, inner, e) == New(h, "Ok", Val("Promise", 0))
\* asyncWrap after its await, once the awaited promise `inner` has settled
asyncWrap_resume(h, inner, e) ==
  IF inner.state = "fulfilled"
    THEN New(h, "Ok", inner.val)
    ELSE asyncWrap_catch(h, e, inner.val)

\* promise states
Pending == [state |-> "pending", val |-> Undefined]
Fulfilled(v) == [state |-> "fulfilled", val |-> v]
Rejected(v) == [state |-> "rejected", val |-> v]
NoPromise == [state |-> "none", val |-> Undefined]

\* an async function's promise settles with the completion of its body
SettleWith(out) == IF out.kind = "return" THEN Fulfilled(out.val) ELSE Rejected(out.val)

\* ------------------------------------------------------ chained method calls
\* r.m(f): the call of the chainable method named m
Method(h, r, m, f) ==
  CASE m = "map" -> Result_map(h, r, f)
    [] m = "mapErr" -> Result_mapErr(h, r, f)
    [] m = "andThen" -> Result_andThen(h, r, f)
    [] m = "orElse" -> Result_orElse(h, r, f)

\* r.m(fs[1]).m(fs[2])...: each call is made on the Result the call before it
\* returned; an exception ends the evaluation of the expression
RECURSIVE Chain(_, _, _, _)
Chain(h, r, m, fs) ==
  IF fs = <<>>
    THEN Eff(Return(Ref(r)), h, <<>>)
    ELSE LET e == Method(h, r, m, Head(fs))
         IN IF e.out.kind = "throw"
              THEN e
              ELSE LET rest == Chain(e.heap, e.out.val.n, m, Tail(fs))
                   IN Eff(rest.out, rest.heap, e.calls \o rest.calls)

\* the callbacks of a chain of 1..MaxChain calls
FnSeqs(S) == UNION {[1..n -> S] : n \in 1..MaxChain}

\* ------------------------------------------------------------------- state
VARIABLES heap, calls, last, tasks

vars == <<heap, calls, last, tasks>>

Task(pc, e, steps, inner, promise) ==
  [pc |-> pc, e |-> e, steps |-> steps, inner |-> inner, promise |-> promise]
IdleTask == Task("idle", Undefined, 0, NoPromise, NoPromise)
TaskIds == 1..MaxTasks
InFlight == {t \in TaskIds : tasks[t].pc # "idle"}
NoneInFlight == \A t \in TaskIds : tasks[t].pc = "idle"

Last(op, self, arg, out) == [op |-> op, self |-> self, arg |-> arg, out |-> out]

Init ==
  /\ heap = <<>>
  /\ calls = <<>>
  /\ last = Last("none", 0, Undefined, Return(Undefined))
  /\ tasks = [t \in TaskIds |-> IdleTask]

\* the program performs `op` on receiver `self` with effect `e`
Do(op, self, arg, e) ==
  /\ NoneInFlight
  /\ Len(e.heap) <= MaxHeap
  /\ UNCHANGED tasks
  /\ heap' = e.heap
  /\ calls' = e.calls
  /\ last' = Last(op, self, arg, e.out)

Refs == 1..Len(heap)

\* the caller constructs a variant directly
NewOk ==
  /\ Len(heap) < MaxHeap
  /\ \E v \in Payloads : Do("new Ok", 0, v, New(heap, "Ok", v))

NewErr ==
  /\ Len(heap) < MaxHeap
  /\ \E v \in Payloads : Do("new Err", 0, v, New(heap, "Err", v))

\* method dispatch: the receiver's class selects the body
CallUnwrap ==
  \E r \in Refs :
    Do("unwrap", r, Undefined,
       Result_unwrap(heap, r))

CallUnwrapErr ==
  \E r \in Refs :
    Do("unwrapErr", r, Undefined,
       Result_unwrapErr(heap, r))

CallUnwrapOr ==
  \E r \in Refs, d \in Defaults :
    Do("unwrapOr", r, d,
       Result_unwrapOr(heap, r, d))

CallIsOk ==
  \E r \in Refs :
    Do("isOk", r, Undefined,
       Result_isOk(heap, r))

CallOk ==
  \E r \in Refs :
    Do("ok", r, Undefined,
       Result_ok(heap, r))

CallIsErr ==
  \E r \in Refs :
    Do("isErr", r, Undefined,
       Result_isErr(heap, r))

CallErr ==
  \E r \in Refs :
    Do("err", r, Undefined,
       Result_err(heap, r))

CallMap ==
  \E r \in Refs, f \in ValueFns :
    Do("map", r, Undefined,
       Result_map(heap, r, f))

CallMapErr ==
  \E r \in Refs, f \in ValueFns :
    Do("mapErr", r, Undefined,
       Result_mapErr(heap, r, f))

CallMapOr ==
  \E r \in Refs, d \in Defaults, f \in ValueFns :
    Do("mapOr", r, d,
       Result_mapOr(heap, r, d, f))

CallMatch ==
  \E r \in Refs, p \in MatchFns :
    Do("match", r, Undefined,
       Result_match(heap, r, p[1], p[2]))

CallAnd ==
  \E r \in Refs, res \in Refs :
    Do("and", r, Ref(res),
       Result_and(heap, r, res))

CallAndThen ==
  \E r \in Refs, op \in ResultFns(heap) :
    Do("andThen", r, Undefined,
       Result_andThen(heap, r, op))

CallOr ==
  \E r \in Refs, res \in Refs :
    Do("or", r, Ref(res),
       Result_or(heap, r, res))

CallOrElse ==
  \E r \in Refs, op \in ResultFns(heap) :
    Do("orElse", r, Undefined,
       Result_orElse(heap, r, op))

CallWrap ==
  /\ Len(heap) < MaxHeap
  /\ \E f \in SyncFns, e \in Fallbacks : Do("wrap", 0, e, wrap(heap, f, e))

\* asyncWrap(f, e): runs synchronously up to the await of f().  The driver
\* makes its asyncWrap calls, at most MaxTasks of them, before its synchronous
\* calls, and leaves room in the heap for the Result of every call in flight.
AsyncWrapCall ==
  \E f \in AsyncFns, e \in Fallbacks :
    LET t == CHOOSE i \in TaskIds \ InFlight : \A j \in TaskIds \ InFlight : i <= j
        c == asyncWrap_call(heap, f, e)
        threw == c.calls[1].out.kind = "throw"
    IN /\ last.op \in {"none", "asyncWrap", "resume", "await"}
       /\ InFlight # TaskIds
       /\ Len(heap) + Cardinality(InFlight) < MaxTasks
       /\ Len(heap) + Cardinality(InFlight) < MaxHeap
       /\ heap' = c.heap
       /\ calls' = c.calls
       /\ last' = Last("asyncWrap", t, e, Return(Val("Promise", t)))
       /\ tasks' = [tasks EXCEPT ![t] =
                      IF threw THEN Task("done", Undefined, 0, NoPromise, SettleWith(c.out))
                               ELSE Task("awaiting", e, 0, Pending, Pending)]

\* the wrapped computation suspends once more before settling
InnerStep ==
  \E t \in TaskIds :
    /\ tasks[t].pc = "awaiting"
    /\ tasks[t].inner.state = "pending"
    /\ tasks[t].steps < MaxSteps
    /\ tasks' = [tasks EXCEPT ![t].steps = @ + 1]
    /\ UNCHANGED <<heap, calls, last>>

\* the wrapped computation completes normally with v
InnerResolve ==
  \E t \in TaskIds, v \in Resolved :
    /\ tasks[t].pc = "awaiting"
    /\ tasks[t].inner.state = "pending"
    /\ tasks' = [tasks EXCEPT ![t].inner = Fulfilled(v)]
    /\ UNCHANGED <<heap, calls, last>>

\* the wrapped computation raises / rejects with err
InnerReject ==
  \E t \in TaskIds, err \in Thrown :
    /\ tasks[t].pc = "awaiting"
    /\ tasks[t].inner.state = "pending"
    /\ tasks' = [tasks EXCEPT ![t].inner = Rejected(err)]
    /\ UNCHANGED <<heap, calls, last>>

\* completion of `await p` for a settled p
AwaitCompletion(p) == IF p.state = "fulfilled" THEN Return(p.val) ELSE Throw(p.val)

\* slip: the fallback is kept in a variable the calls share, so a continuation
\* reads the fallback of the latest activation in flight
AsyncWrapResumeOf_shared(t) ==
  /\ tasks[t].pc = "awaiting"
  /\ tasks[t].inner.state \in {"fulfilled", "rejected"}
  /\ LET u == CHOOSE i \in InFlight : \A j \in InFlight : j <= i
         r == asyncWrap_resume(heap, tasks[t].inner, tasks[u].e)
     IN /\ heap' = r.heap
        /\ tasks' = [tasks EXCEPT ![t] =
                       Task("done", Undefined, 0, NoPromise, SettleWith(r.out))]
        /\ calls' = <<[param |-> "await", args |-> <<>>,
                       out |-> AwaitCompletion(tasks[t].inner)]>>
        /\ last' = Last("resume", t, tasks[t].e, r.out)
\* the continuation of activation t of asyncWrap after the await
AsyncWrapResumeOf(t) ==
  /\ tasks[t].pc = "awaiting"
  /\ tasks[t].inner.state \in {"fulfilled", "rejected"}
  /\ LET r == asyncWrap_resume(heap, tasks[t].inner, tasks[t].e)
     IN /\ heap' = r.heap
        /\ tasks' = [tasks EXCEPT ![t] =
                       Task("done", Undefined, 0, NoPromise, SettleWith(r.out))]
        /\ calls' = <<[param |-> "await", args |-> <<>>,
                       out |-> AwaitCompletion(tasks[t].inner)]>>
        /\ last' = Last("resume", t, tasks[t].e, r.out)

\* slip: the continuation runs without the awaited promise having settled
AsyncWrapResume_eager ==
  \E t \in TaskIds :
    /\ tasks[t].pc = "awaiting"
    /\ LET r == asyncWrap_resume(heap, tasks[t].inner, tasks[t].e)
       IN /\ heap' = r.heap
          /\ tasks' = [tasks EXCEPT ![t] =
                         Task("done", Undefined, 0, NoPromise, SettleWith(r.out))]
          /\ calls' = <<[param |-> "await", args |-> <<>>,
                         out |-> AwaitCompletion(tasks[t].inner)]>>
          /\ last' = Last("resume", t, tasks[t].e, r.out)

\* the host runtime resumes some activation whose awaited promise has settled
AsyncWrapResume ==
  \E t \in TaskIds :
    /\ tasks[t].pc = "awaiting"
    /\ AsyncWrapResumeOf(t)

\* the caller awaits the promise asyncWrap returned and drops it
Await ==
  \E t \in TaskIds :
    /\ tasks[t].pc = "done"
    /\ last' = Last("await", t, Undefined, AwaitCompletion(tasks[t].promise))
    /\ calls' = <<>>
    /\ tasks' = [tasks EXCEPT ![t] = IdleTask]
    /\ UNCHANGED heap

Next ==
  \/ NewOk
  \/ NewErr
  \/ CallUnwrap
  \/ CallUnwrapErr
  \/ CallUnwrapOr
  \/ CallIsOk
  \/ CallOk
  \/ CallIsErr
  \/ CallErr
  \/ CallMap
  \/ CallMapErr
  \/ CallMapOr
  \/ CallMatch
  \/ CallAnd
  \/ CallAndThen
  \/ CallOr
  \/ CallOrElse
  \/ CallWrap
  \/ AsyncWrapCall
  \/ InnerStep
  \/ InnerResolve
  \/ InnerReject
  \/ AsyncWrapResume
  \/ Await

Spec == Init /\ [][Next]_vars

\* a program that only makes asyncWrap calls, on a host runtime that runs the
\* continuation of an await whose promise has settled: for each activation,
\* resuming it is weakly fair; the wrapped computation need not ever settle
AsyncNext ==
  \/ AsyncWrapCall
  \/ InnerStep
  \/ InnerResolve
  \/ InnerReject
  \/ AsyncWrapResume
  \/ Await

FairSpec ==
  /\ Init
  /\ [][AsyncNext]_vars
  /\ \A t \in TaskIds :
       WF_vars(AsyncWrapResumeOf(t))

\* chains of andThen / orElse calls, as in the expressions of the orElse test.
\* The driver evaluates a chain right after constructing a Result: every heap
\* is one that construction alone reaches, so no chain evaluation is left out.
CallAndThenChain ==
  \E r \in Refs, ops \in FnSeqs(ResultFns(heap)) :
    /\ last.op \in {"new Ok", "new Err"}
    /\ Do("andThenChain", r, Val("fns", ops),
          Chain(heap, r, "andThen", ops))

CallOrElseChain ==
  \E r \in Refs, ops \in FnSeqs(ResultFns(heap)) :
    /\ last.op \in {"new Ok", "new Err"}
    /\ Do("orElseChain", r, Val("fns", ops),
          Chain(heap, r, "orElse", ops))

\* chains of map / mapErr calls
CallMapChain ==
  \E r \in Refs, fs \in FnSeqs(ValueFns) :
    /\ last.op \in {"new Ok", "new Err"}
    /\ Do("mapChain", r, Val("fns", fs),
          Chain(heap, r, "map", fs))

CallMapErrChain ==
  \E r \in Refs, fs \in FnSeqs(ValueFns) :
    /\ last.op \in {"new Ok", "new Err"}
    /\ Do("mapErrChain", r, Val("fns", fs),
          Chain(heap, r, "mapErr", fs))

\* a program that constructs Results and evaluates chained calls on them
ChainNext ==
  \/ NewOk
  \/ NewErr
  \/ CallMapChain
  \/ CallMapErrChain
  \/ CallAndThenChain
  \/ CallOrElseChain

ChainSpec == Init /\ [][ChainNext]_vars

\* ------------------------------------------------------------ properties
\* the receiver of the last call, and the object a reference designates
Self == heap[last.self]
IsRef(v) == v.k = "Result" /\ v.n \in 1..Len(heap)
Deref(v) == heap[v.n]
Returned == last.out.kind = "return"
\* the last call returned a reference to a Result of class cls with payload v
ReturnedNew(cls, v) == Returned /\ IsRef(last.out.val) /\ Deref(last.out.val) = Obj(cls, v)
\* the operations whose value is a Result
ResultOps == {"new Ok", "new Err", "map", "mapErr", "and", "or", "wrap"}

\* C1: every Result is exactly one of Ok and Err: isOk() is true iff it is the
\* Ok variant and isErr() is its negation; this covers every Result a
\* combinator, wrap or asyncWrap hands back, and every isOk()/isErr() call made.
C1_Exhaustive ==
  /\ \A r \in 1..Len(heap) :
       LET isOk == Result_isOk(heap, r).out
           isErr == Result_isErr(heap, r).out
       IN /\ isOk \in {Return(True), Return(False)}
          /\ isErr \in {Return(True), Return(False)}
          /\ (isOk = Return(True)) # (isErr = Return(True))
          /\ (isOk = Return(True)) <=> (heap[r].cls = "Ok")
  /\ (last.op \in ResultOps /\ Returned) => IsRef(last.out.val)
  /\ (last.op \in {"andThen", "orElse"} /\ Returned) => IsRef(last.out.val)
  /\ \A t \in TaskIds :
       tasks[t].promise.state = "fulfilled" => IsRef(tasks[t].promise.val)
  /\ last.op = "isOk" => last.out = Return(IF Self.cls = "Ok" THEN True ELSE False)
  /\ last.op = "isErr" => last.out = Return(IF Self.cls = "Ok" THEN False ELSE True)

\* isErr() was called on a failure that a combinator produced
C1_Witness ==
  /\ last.op = "isErr"
  /\ last.self > 1
  /\ Self.cls = "Err"
  /\ last.out = Return(True)

\* C2: Ok(x).unwrap() returns x and Err(e).unwrapErr() returns e, the payload
\* the constructor was given.
C2_UnwrapIdentity ==
  /\ last.op = "new Ok" => ReturnedNew("Ok", last.arg)
  /\ last.op = "new Err" => ReturnedNew("Err", last.arg)
  /\ (last.op = "unwrap" /\ Self.cls = "Ok") => last.out = Return(Self.val)
  /\ (last.op = "unwrapErr" /\ Self.cls = "Err") => last.out = Return(Self.val)

\* unwrap() was called on a success whose payload is not undefined
C2_Witness ==
  /\ last.op = "unwrap"
  /\ Self = Obj("Ok", Num(0))
  /\ last.out = Return(Num(0))

\* C3: unwrap() on a failure and unwrapErr() on a success return nothing: the
\* call raises.
C3_WrongVariantRaises ==
  /\ (last.op = "unwrap" /\ Self.cls = "Err") => last.out.kind = "throw"
  /\ (last.op = "unwrapErr" /\ Self.cls = "Ok") => last.out.kind = "throw"

\* unwrap() was called on a failure
C3_Witness ==
  /\ last.op = "unwrap"
  /\ Self.cls = "Err"
  /\ last.out = Throw(TypeError)

\* C4: wrap(f) without a fallback calls f once, with no arguments; the result
\* is Ok(v) when f returned v and Err(err) when f threw err; no call of wrap
\* raises.
C4_Wrap ==
  last.op = "wrap" =>
    /\ Returned
    /\ Len(calls) = 1
    /\ calls[1].param = "f"
    /\ calls[1].args = <<>>
    /\ calls[1].out.kind = "return" => ReturnedNew("Ok", calls[1].out.val)
    /\ (calls[1].out.kind = "throw" /\ last.arg = Undefined)
         => ReturnedNew("Err", calls[1].out.val)

\* wrap was called without a fallback on a function that threw
C4_Witness ==
  /\ last.op = "wrap"
  /\ last.arg = Undefined
  /\ calls[1].out = Throw(Num(0))
  /\ ReturnedNew("Err", Num(0))

\* C5: whenever f throws and the caller passed a fallback, of any value, the
\* result of wrap is Err(fallback); likewise for what asyncWrap resolves to.
\* (The argument is Undefined exactly when the caller passed none.)
C5_FallbackAlwaysWins ==
  /\ (last.op = "wrap" /\ calls[1].out.kind = "throw" /\ last.arg # Undefined)
       => ReturnedNew("Err", last.arg)
  /\ (last.op = "resume" /\ calls[1].out.kind = "throw" /\ last.arg # Undefined)
       => ReturnedNew("Err", last.arg)

\* C6: asyncWrap(f) without a fallback resolves to Ok(v) when the computation
\* of f completed with v, and to Err(err) when it rejected with err.
C6_AsyncWrap ==
  (last.op = "resume" /\ last.arg = Undefined) =>
    /\ Len(calls) = 1
    /\ tasks[last.self].promise = SettleWith(last.out)
    /\ calls[1].out.kind = "return" => ReturnedNew("Ok", calls[1].out.val)
    /\ calls[1].out.kind = "throw" => ReturnedNew("Err", calls[1].out.val)

\* asyncWrap without a fallback resumed after its computation completed
C6_Witness ==
  /\ last.op = "resume"
  /\ last.arg = Undefined
  /\ calls[1].out = Return(Num(0))
  /\ tasks[last.self].promise.state = "fulfilled"
  /\ Deref(tasks[last.self].promise.val) = Obj("Ok", Num(0))

\* C7: the promise asyncWrap returns never rejects: when f throws before
\* returning a promise, and when its promise rejects, the returned promise is
\* fulfilled with an Err; awaiting it never raises.
C7_NeverRejects ==
  /\ \A t \in TaskIds : tasks[t].promise.state # "rejected"
  /\ last.op = "await" => Returned /\ IsRef(last.out.val)
  /\ (last.op = "asyncWrap" /\ calls[1].out.kind = "throw") =>
       /\ tasks[last.self].promise.state = "fulfilled"
       /\ IsRef(tasks[last.self].promise.val)
       /\ Deref(tasks[last.self].promise.val).cls = "Err"
  /\ (last.op = "resume" /\ calls[1].out.kind = "throw") =>
       /\ tasks[last.self].promise.state = "fulfilled"
       /\ IsRef(tasks[last.self].promise.val)
       /\ Deref(tasks[last.self].promise.val).cls = "Err"

\* f threw before returning a promise and the returned promise is fulfilled
C7_Witness ==
  /\ last.op = "asyncWrap"
  /\ calls[1].out.kind = "throw"
  /\ tasks[last.self].promise.state = "fulfilled"
  /\ Deref(tasks[last.self].promise.val).cls = "Err"

\* C8: Ok(x).andThen(op) calls op once, with x, and completes as op did;
\* Err(e).andThen(op) returns a failure with payload e and never calls op.
C8_AndThen ==
  last.op = "andThen" =>
    IF Self.cls = "Ok"
      THEN /\ Len(calls) = 1
           /\ calls[1].param = "op"
           /\ calls[1].args = <<Self.val>>
           /\ last.out = calls[1].out
      ELSE /\ calls = <<>>
           /\ ReturnedNew("Err", Self.val)

\* andThen was called on a failure, and on nothing else the op was not run
C8_Witness ==
  /\ last.op = "andThen"
  /\ Self = Obj("Err", Num(0))
  /\ calls = <<>>
  /\ ReturnedNew("Err", Num(0))

\* C9: Err(e).orElse(op) calls op once, with e, and completes as op did;
\* Ok(x).orElse(op) returns a success with payload x and never calls op.
C9_OrElse ==
  last.op = "orElse" =>
    IF Self.cls = "Err"
      THEN /\ Len(calls) = 1
           /\ calls[1].param = "op"
           /\ calls[1].args = <<Self.val>>
           /\ last.out = calls[1].out
      ELSE /\ calls = <<>>
           /\ ReturnedNew("Ok", Self.val)

\* orElse was called on a failure and handed back the Result op made
C9_Witness ==
  /\ last.op = "orElse"
  /\ Self = Obj("Err", Num(0))
  /\ Len(calls) = 1
  /\ ReturnedNew("Ok", Num(0))

\* C10: match calls exactly one callback, once, with the payload: the first
\* on a success, the second on a failure; it completes as that callback did.
C10_Match ==
  last.op = "match" =>
    /\ Len(calls) = 1
    /\ calls[1].param = (IF Self.cls = "Ok" THEN "ok" ELSE "err")
    /\ calls[1].args = <<Self.val>>
    /\ last.out = calls[1].out

\* match was called on a failure and returned what the second callback returned
C10_Witness ==
  /\ last.op = "match"
  /\ Self.cls = "Err"
  /\ calls[1].param = "err"
  /\ last.out = Return(Num(0))
  /\ Self.val = Undefined

\* C11: Ok(x).map(f) calls f once, with x, and returns a success whose payload
\* is what f returned; Err(e).map(f) returns a failure with payload e and never
\* calls f.
C11_Map ==
  last.op = "map" =>
    IF Self.cls = "Ok"
      THEN /\ Len(calls) = 1
           /\ calls[1].param = "f"
           /\ calls[1].args = <<Self.val>>
           /\ calls[1].out.kind = "return" => ReturnedNew("Ok", calls[1].out.val)
      ELSE /\ calls = <<>>
           /\ ReturnedNew("Err", Self.val)

\* map was called on a success with an f whose value differs from the payload
C11_Witness ==
  /\ last.op = "map"
  /\ Self = Obj("Ok", Undefined)
  /\ calls[1].out = Return(Num(0))
  /\ ReturnedNew("Ok", Num(0))

\* C12: Err(e).mapErr(f) calls f once, with e, and returns a failure whose
\* payload is what f returned; Ok(x).mapErr(f) returns a success with payload x
\* and never calls f.
C12_MapErr ==
  last.op = "mapErr" =>
    IF Self.cls = "Err"
      THEN /\ Len(calls) = 1
           /\ calls[1].param = "f"
           /\ calls[1].args = <<Self.val>>
           /\ calls[1].out.kind = "return" => ReturnedNew("Err", calls[1].out.val)
      ELSE /\ calls = <<>>
           /\ ReturnedNew("Ok", Self.val)

\* mapErr was called on a success and f was left alone
C12_Witness ==
  /\ last.op = "mapErr"
  /\ Self = Obj("Ok", Undefined)
  /\ calls = <<>>
  /\ ReturnedNew("Ok", Undefined)

\* C13: Ok(x).mapOr(d, f) calls f once, with x, and completes as f did;
\* Err(e).mapOr(d, f) returns d and never calls f.
C13_MapOr ==
  last.op = "mapOr" =>
    IF Self.cls = "Ok"
      THEN /\ Len(calls) = 1
           /\ calls[1].param = "f"
           /\ calls[1].args = <<Self.val>>
           /\ last.out = calls[1].out
      ELSE /\ calls = <<>>
           /\ last.out = Return(last.arg)

\* mapOr was called on a failure and returned the default
C13_Witness ==
  /\ last.op = "mapOr"
  /\ Self = Obj("Err", Num(0))
  /\ calls = <<>>
  /\ last.out = Return(Null)

\* C14: Ok(x).unwrapOr(d) returns x and Err(e).unwrapOr(d) returns d; no call
\* of unwrapOr raises.
C14_UnwrapOr ==
  last.op = "unwrapOr" =>
    /\ Returned
    /\ calls = <<>>
    /\ last.out.val = (IF Self.cls = "Ok" THEN Self.val ELSE last.arg)

\* unwrapOr was called on a failure whose payload differs from the default
C14_Witness ==
  /\ last.op = "unwrapOr"
  /\ Self = Obj("Err", Num(0))
  /\ last.arg = Null
  /\ last.out = Return(Null)

\* C15: for every Result, whatever its payload (undefined included), ok() is
\* present and equal to the payload on a success and absent on a failure, and
\* err() is present and equal to the payload on a failure and absent on a
\* success: ok() is present iff the Result is Ok, err() iff it is Err.
C15_OptionPresence ==
  /\ last.op = "ok" =>
       /\ Returned
       /\ IsSome(last.out.val) <=> (Self.cls = "Ok")
       /\ Self.cls = "Ok" => last.out.val = Self.val
  /\ last.op = "err" =>
       /\ Returned
       /\ IsSome(last.out.val) <=> (Self.cls = "Err")
       /\ Self.cls = "Err" => last.out.val = Self.val

\* C15 (amended): ok() returns the payload of a success and undefined on a
\* failure, err() the payload of a failure and undefined on a success; so ok()
\* is present iff the Result is Ok and its payload is not undefined, and err()
\* is present iff it is Err and its payload is not undefined.
C15_OptionValue ==
  /\ last.op = "ok" =>
       /\ calls = <<>>
       /\ last.out = Return(IF Self.cls = "Ok" THEN Self.val ELSE Undefined)
       /\ IsSome(last.out.val) <=> (Self.cls = "Ok" /\ Self.val # Undefined)
  /\ last.op = "err" =>
       /\ calls = <<>>
       /\ last.out = Return(IF Self.cls = "Err" THEN Self.val ELSE Undefined)
       /\ IsSome(last.out.val) <=> (Self.cls = "Err" /\ Self.val # Undefined)

\* ok() was called on a success whose payload is undefined and read as absent
C15_Witness ==
  /\ last.op = "ok"
  /\ Self = Obj("Ok", Undefined)
  /\ ~IsSome(last.out.val)

\* C16: Ok(x).and(other) returns other, so a Result of other's variant and
\* payload; Err(e).and(other) returns a failure with payload e whatever other
\* is, also when other is a failure with another payload.
C16_And ==
  last.op = "and" =>
    /\ calls = <<>>
    /\ Returned
    /\ IsRef(last.arg)
    /\ IF Self.cls = "Ok"
         THEN last.out.val = last.arg
         ELSE ReturnedNew("Err", Self.val)

\* and was called on a failure with a failure of another payload
C16_Witness ==
  /\ last.op = "and"
  /\ Self = Obj("Err", Num(0))
  /\ Deref(last.arg) = Obj("Err", Undefined)
  /\ ReturnedNew("Err", Num(0))

\* C17: Ok(x).or(other) returns a success with payload x whatever other is,
\* also when other is a success with another payload; Err(e).or(other) returns
\* other, so a Result of other's variant and payload.
C17_Or ==
  last.op = "or" =>
    /\ calls = <<>>
    /\ Returned
    /\ IsRef(last.arg)
    /\ IF Self.cls = "Ok"
         THEN ReturnedNew("Ok", Self.val)
         ELSE last.out.val = last.arg

\* or was called on a success with a success of another payload
C17_Witness ==
  /\ last.op = "or"
  /\ Self = Obj("Ok", Num(0))
  /\ Deref(last.arg) = Obj("Ok", Undefined)
  /\ ReturnedNew("Ok", Num(0))

\* C18: a Result is immutable: no accessor or combinator call, and no other
\* step, changes the variant or the payload of a Result that exists; calls
\* only add new Results.
C18_Immutable ==
  [][\A r \in 1..Len(heap) : r <= Len(heap') /\ heap'[r] = heap[r]]_vars

\* mapErr was called on a failure: it returned another Result with the mapped
\* payload, and the receiver still has its payload
C18_Witness ==
  /\ last.op = "mapErr"
  /\ Self = Obj("Err", Undefined)
  /\ ReturnedNew("Err", Num(0))
  /\ last.out.val.n # last.self

\* the combinators that run a caller-supplied callback
CallbackOps == {"map", "mapErr", "mapOr", "match", "andThen", "orElse"}

\* C19: the synchronous combinators do not adapt exceptions: when a callback
\* that map, mapErr, mapOr, match, andThen or orElse ran has thrown, the call
\* throws that same value and no Result is made of it; wrap, in contrast,
\* returns an Err when its f has thrown.
C19_NoAdaptation ==
  /\ last.op \in CallbackOps =>
       \A i \in 1..Len(calls) :
         calls[i].out.kind = "throw" =>
           /\ last.out = calls[i].out
           /\ \A r \in 1..Len(heap) : heap[r].val # calls[i].out.val
  /\ (last.op = "wrap" /\ calls[1].out.kind = "throw") =>
       /\ Returned
       /\ IsRef(last.out.val)
       /\ Deref(last.out.val).cls = "Err"

\* the f handed to mapErr threw on a failure, and mapErr threw the same value
C19_Witness ==
  /\ last.op = "mapErr"
  /\ Self.cls = "Err"
  /\ calls[1].out = Throw(Error(0))
  /\ last.out = Throw(Error(0))

\* the wrapped computation of activation t has settled and asyncWrap is still
\* suspended at its await
Settled(t) ==
  tasks[t].pc = "awaiting" /\ tasks[t].inner.state \in {"fulfilled", "rejected"}

\* C20: the promise asyncWrap returned stays pending until the wrapped
\* computation has settled (so it never resolves if that never settles), it
\* then resolves with an Ok of the value the computation completed with or
\* with an Err, and, the runtime being fair to the continuation, once the
\* computation has settled the promise eventually does resolve.
C20_ResolvesAfterSettle ==
  /\ [][\A t \in TaskIds :
          (tasks[t].promise.state = "pending" /\ tasks'[t].promise.state # "pending") =>
            /\ Settled(t)
            /\ tasks'[t].promise.state = "fulfilled"
            /\ tasks'[t].promise.val.n \in 1..Len(heap')
            /\ heap'[tasks'[t].promise.val.n].cls =
                 (IF tasks[t].inner.state = "fulfilled" THEN "Ok" ELSE "Err")
            /\ tasks[t].inner.state = "fulfilled" =>
                 heap'[tasks'[t].promise.val.n].val = tasks[t].inner.val]_vars
  /\ \A t \in TaskIds : Settled(t) ~> (tasks[t].promise.state = "fulfilled")

\* asyncWrap resumed after its computation rejected and its promise resolved
\* with an Err
C20_Witness ==
  /\ last.op = "resume"
  /\ calls[1].out = Throw(Num(0))
  /\ tasks[last.self].promise.state = "fulfilled"
  /\ Deref(tasks[last.self].promise.val) = Obj("Err", Num(0))

\* the last call made exactly one invocation, of f, with no arguments
InvokedOnce ==
  /\ Len(calls) = 1
  /\ calls[1].param = "f"
  /\ calls[1].args = <<>>

\* C21: a call of wrap or asyncWrap invokes f exactly once, with no arguments;
\* the continuation of asyncWrap performs its one await and no invocation of
\* f, and awaiting the returned promise invokes nothing (no retry).  While the
\* wrapped computation is pending the activation stays suspended with its
\* promise pending (no timeout, no cancellation), and an activation that has
\* resumed never suspends again (one suspension point).
C21_OneInvocation ==
  [][/\ last'.op \in {"wrap", "asyncWrap"} => InvokedOnce'
     /\ last'.op = "resume" => (Len(calls') = 1 /\ calls'[1].param = "await")
     /\ last'.op = "await" => calls' = <<>>
     /\ \A t \in TaskIds :
          /\ (tasks[t].pc = "awaiting" /\ tasks'[t].inner.state = "pending") =>
               (tasks'[t].pc = "awaiting" /\ tasks'[t].promise = Pending)
          /\ tasks[t].pc = "awaiting" => tasks'[t].pc \in {"awaiting", "done"}
          /\ tasks[t].pc = "done" => tasks'[t].pc \in {"done", "idle"}]_vars

\* asyncWrap called an f that returned a promise, once, and is suspended
C21_Witness ==
  /\ last.op = "asyncWrap"
  /\ InvokedOnce
  /\ calls[1].out = Return(Val("Promise", 0))
  /\ tasks[last.self].pc = "awaiting"

\* the i-th invocation logged by the last call returned a Result of class cls
Yielded(i, cls) ==
  /\ calls[i].out.kind = "return"
  /\ IsRef(calls[i].out.val)
  /\ Deref(calls[i].out.val).cls = cls

\* the logged invocation c is an invocation of the callback f
IsCallOf(f, c) ==
  CASE f.body = "newOk" ->
         c.out.kind = "return" /\ IsRef(c.out.val) /\ Deref(c.out.val) = Obj("Ok", c.args[1])
    [] f.body = "newErr" ->
         c.out.kind = "return" /\ IsRef(c.out.val) /\ Deref(c.out.val) = Obj("Err", c.args[1])
    [] f.body = "captured" -> c.out = Return(f.c)
    [] f.body = "throw" -> c.out = Throw(f.c)

\* the last call was a chain that passes on cls and stops at the first Result
\* of class stop: its ops ran in order, each on the payload handed on, up to
\* the first that yielded a stop (or threw); none ran after it, and the chain
\* completed as that op did, a stop keeping its payload
ShortCircuit(cls, stop) ==
  LET ops == last.arg.n
      n == Len(calls)
  IN IF Self.cls = stop
       THEN /\ calls = <<>>
            /\ ReturnedNew(stop, Self.val)
       ELSE /\ n \in 1..Len(ops)
            /\ \A i \in 1..n : calls[i].param = "op" /\ IsCallOf(ops[i], calls[i])
            /\ calls[1].args = <<Self.val>>
            /\ \A i \in 1..(n - 1) :
                 /\ Yielded(i, cls)
                 /\ calls[i + 1].args = <<Deref(calls[i].out.val).val>>
            /\ n < Len(ops) => (Yielded(n, stop) \/ calls[n].out.kind = "throw")
            /\ calls[n].out.kind = "throw" => last.out = calls[n].out
            /\ Yielded(n, cls) => last.out = calls[n].out
            /\ Yielded(n, stop) =>
                 /\ Returned
                 /\ IsRef(last.out.val)
                 /\ Deref(last.out.val) = Deref(calls[n].out.val)

\* C22: in r.andThen(op1)...andThen(opN) the ops run in order up to the first
\* that yields a failure (none if r is Err), no later op runs, and the chain
\* yields that first failure with its payload; dually r.orElse(op1)...
\* orElse(opN) runs its ops up to the first success (none if r is Ok) and
\* yields that success.
C22_ShortCircuit ==
  /\ last.op = "andThenChain" => ShortCircuit("Ok", "Err")
  /\ last.op = "orElseChain" => ShortCircuit("Err", "Ok")

\* a chain of two andThen calls on a success stopped at its first op, which
\* yielded a failure; the second op would have made a success
C22_Witness ==
  /\ last.op = "andThenChain"
  /\ Self = Obj("Ok", Num(0))
  /\ Len(last.arg.n) = 2
  /\ last.arg.n[1].body = "newErr"
  /\ last.arg.n[2].body = "newOk"
  /\ Len(calls) = 1
  /\ ReturnedNew("Err", Num(0))

\* r.isOk() is true, for the Result r of the current heap
IsOkNow(r) == Result_isOk(heap, r).out = Return(True)

\* C23: and / or follow logical AND / OR on the variants: a.and(b).isOk() is
\* a.isOk() && b.isOk() and a.or(b).isOk() is a.isOk() || b.isOk(); of two
\* failures and keeps a's payload and or takes b's, of two successes and takes
\* b's payload and or keeps a's.
C23_AndOrLogic ==
  LET a == last.self
      b == last.arg.n
      res == last.out.val.n
  IN /\ last.op = "and" =>
          /\ Returned /\ IsRef(last.out.val)
          /\ IsOkNow(res) <=> (IsOkNow(a) /\ IsOkNow(b))
          /\ (~IsOkNow(a) /\ ~IsOkNow(b)) => heap[res].val = heap[a].val
          /\ (IsOkNow(a) /\ IsOkNow(b)) => heap[res].val = heap[b].val
     /\ last.op = "or" =>
          /\ Returned /\ IsRef(last.out.val)
          /\ IsOkNow(res) <=> (IsOkNow(a) \/ IsOkNow(b))
          /\ (~IsOkNow(a) /\ ~IsOkNow(b)) => heap[res].val = heap[b].val
          /\ (IsOkNow(a) /\ IsOkNow(b)) => heap[res].val = heap[a].val

\* and was called on two successes of different payloads and took the second
C23_Witness ==
  /\ last.op = "and"
  /\ Self = Obj("Ok", Num(0))
  /\ Deref(last.arg) = Obj("Ok", Undefined)
  /\ Returned
  /\ Deref(last.out.val) = Obj("Ok", Undefined)

\* C24: concurrent asyncWrap calls are independent: whatever else is in flight
\* and in whatever order the computations settle, the promise of an activation
\* resolves to the Result that its own computation's outcome and its own
\* fallback give when the call runs alone; settling or resuming one
\* activation leaves every other activation and every existing Result as it
\* was, and a resolved promise keeps its Result.
C24_Independent ==
  [][\A t \in TaskIds :
       /\ (tasks[t].pc = "awaiting" /\ tasks'[t].pc = "done") =>
            LET alone == asyncWrap_resume(<<>>, tasks[t].inner, tasks[t].e)
                p == tasks'[t].promise
            IN /\ p.state = "fulfilled"
               /\ p.val.n \in 1..Len(heap')
               /\ heap'[p.val.n] = alone.heap[1]
               /\ heap'[p.val.n].cls =
                    (IF tasks[t].inner.state = "fulfilled" THEN "Ok" ELSE "Err")
               /\ heap'[p.val.n].val \in {tasks[t].inner.val, tasks[t].e}
               /\ \A u \in TaskIds \ {t} : tasks'[u] = tasks[u]
               /\ \A r \in 1..Len(heap) : heap'[r] = heap[r]
       /\ (tasks[t].pc = "awaiting" /\ tasks'[t].pc = "awaiting"
             /\ tasks'[t] # tasks[t]) =>
            /\ \A u \in TaskIds \ {t} : tasks'[u] = tasks[u]
            /\ heap' = heap
       /\ (tasks[t].pc = "done" /\ tasks'[t].pc = "done") =>
            tasks'[t] = tasks[t]]_vars

\* two calls were pending together; the second resumed first, after a
\* rejection and with its own fallback, while the first, whose computation
\* had already completed, was still suspended
C24_Witness ==
  /\ last.op = "resume"
  /\ last.self = 2
  /\ last.arg = Num(0)
  /\ calls[1].out = Throw(Undefined)
  /\ ReturnedNew("Err", Num(0))
  /\ tasks[1].pc = "awaiting"
  /\ tasks[1].e = Undefined
  /\ tasks[1].inner = Fulfilled(Num(0))

\* the last call returned a Result of the variant and payload of its receiver
SameAsSelf == Returned /\ IsRef(last.out.val) /\ Deref(last.out.val) = Self

\* C25: r.map(identity), r.mapErr(identity), r.andThen(x => Ok(x)) and
\* r.orElse(e => Err(e)) have the variant and the payload of r; and map
\* composes: r.map(f).map(g), and any longer chain of maps, completes as the
\* single map of the composed function x => g(f(x)) does: with the same
\* exception, or with a Result of the same variant and payload.
C25_IdentityAndComposition ==
  LET fs == last.arg.n
      one == Result_map(heap, last.self, ComposeAll(fs))
  IN /\ (last.op \in {"mapChain", "mapErrChain"} /\ fs = <<Fn("id", Undefined)>>)
          => SameAsSelf
     /\ (last.op = "andThenChain" /\ fs = <<Fn("newOk", Undefined)>>) => SameAsSelf
     /\ (last.op = "orElseChain" /\ fs = <<Fn("newErr", Undefined)>>) => SameAsSelf
     /\ (last.op = "mapChain" /\ Len(fs) >= 2) =>
          IF one.out.kind = "throw"
            THEN last.out = one.out
            ELSE /\ Returned
                 /\ IsRef(last.out.val)
                 /\ Deref(last.out.val) = one.heap[one.out.val.n]

\* r.map(f).map(g) was evaluated on a success, with g changing what f returned
C25_Witness ==
  /\ last.op = "mapChain"
  /\ Self = Obj("Ok", Undefined)
  /\ last.arg.n = <<Fn("id", Undefined), Fn("const", Num(0))>>
  /\ Len(calls) = 2
  /\ ReturnedNew("Ok", Num(0))
====
